---------------------------- MODULE Spec2Model ----------------------------
(***************************************************************************)
(* A model of the script-visitor bridge of src/src/lib.rs: the entry point *)
(* process(program, metadata), its helper build_transform_context, the     *)
(* line filters that assemble the script, and the staged fail-soft         *)
(* protocol around the embedded script runtime.                            *)
(*                                                                         *)
(* Texts are sequences of tokens.  A token is a run of characters that the *)
(* code's patterns treat alike (a keyword, an identifier, one punctuation  *)
(* character, one blank); "\n" is the line terminator.                     *)
(***************************************************************************)
EXTENDS Integers, Sequences, FiniteSets, TLC

VARIABLES
    pc,                   \* position of the host/bridge control flow
    program,              \* process's argument: the host tree
    config_str,           \* metadata.get_transform_plugin_config()
    transform_context,    \* Option<TransformContext>
    serde_serialized_ast, \* Result of serde_json::to_string(&program)
    context,              \* the boa Context of the running invocation
    transform_code,       \* the assembled program text handed to context.eval
    transform_result,     \* Result of context.eval, then the unwrapped string
    result,               \* the Program returned to the host
    diags,                \* messages passed to handler.err in this invocation
    events,               \* history: operations performed in this invocation
    readPath,             \* history: the path handed to fs::read_to_string
    retired               \* history: class bindings of the last torn-down runtime

vars == <<pc, program, config_str, transform_context,
          serde_serialized_ast, context, transform_code, transform_result,
          result, diags, events, readPath, retired>>

-----------------------------------------------------------------------------
(* Bounds of the model.                                                    *)

MaxLines == 2        \* lines of a user transform file
MaxBody == 1         \* statements of a host Program

-----------------------------------------------------------------------------
(* Generic helpers on sequences.                                           *)

Range(s) == {s[i] : i \in DOMAIN s}

SeqsUpTo(S, n) == UNION {[1..k -> S] : k \in 0..n}

IsPrefix(s, t) == Len(s) <= Len(t) /\ SubSeq(t, 1, Len(s)) = s

\* The subsequence of s at the indices satisfying keep, in order.
RECURSIVE SelectIdx(_, _, _)
SelectIdx(s, keep, i) ==
    IF i > Len(s) THEN <<>>
    ELSE (IF keep[i] THEN <<s[i]>> ELSE <<>>) \o SelectIdx(s, keep, i + 1)

NL == "\n"
DQ == "\""
SQ == "'"

\* str::lines(): split at line terminators; a final empty line is dropped.
RECURSIVE SplitNL(_)
SplitNL(text) ==
    IF \A i \in DOMAIN text : text[i] # NL THEN <<text>>
    ELSE LET i == CHOOSE k \in DOMAIN text :
                      text[k] = NL /\ \A j \in 1..(k - 1) : text[j] # NL
         IN  <<SubSeq(text, 1, i - 1)>> \o SplitNL(SubSeq(text, i + 1, Len(text)))

lines(text) ==
    LET segs == SplitNL(text)
    IN  IF segs[Len(segs)] = <<>> THEN SubSeq(segs, 1, Len(segs) - 1) ELSE segs

\* [&str]::join("\n")
RECURSIVE join(_)
join(ls) ==
    IF ls = <<>> THEN <<>>
    ELSE IF Len(ls) = 1 THEN ls[1]
    ELSE ls[1] \o <<NL>> \o join(Tail(ls))

-----------------------------------------------------------------------------
(* The line filters of process.                                            *)

FrameworkModule == "@swc/core/Visitor"

\* [\s*] : one white-space character or one asterisk.
SpaceOrStar == {" ", "\t", "*"}

\* The tokens made only of characters of [\w*{Visitor}\n\r\t, ].
BindingClass ==
    {"import", "from", "as", "class", "extends", "Visitor", "TransformVisitor",
     "A", "B", "V", "x", "helpers", "shim", "*", "{", "}", ",", " ", "\t"}

\* JS_VISITOR_IMPORT_REGEX matched with the literal "import" at token i:
\*   import (?: ([\w*{Visitor}\n\r\t, ]+) [\s*] from )? [\s*]
\*          (?: ["'] @swc\/core\/Visitor ["'] )?
\* k is the last token consumed before the mandatory [\s*]: the keyword
\* itself when the binding group is skipped, else the "from" of the group.
MatchAt(line, i) ==
    /\ line[i] = "import"
    /\ \E k \in i..Len(line) :
          /\ \/ k = i
             \/ /\ k >= i + 3
                /\ line[k] = "from"
                /\ line[k - 1] \in SpaceOrStar
                /\ \A j \in (i + 1)..(k - 2) : line[j] \in BindingClass
          /\ k + 1 <= Len(line)
          /\ line[k + 1] \in SpaceOrStar
          /\ \/ TRUE                     \* the module group is optional
             \/ /\ k + 4 <= Len(line)
                /\ line[k + 2] \in {DQ, SQ}
                /\ line[k + 3] = FrameworkModule
                /\ line[k + 4] \in {DQ, SQ}

\* Regex::is_match: an unanchored search.
JS_VISITOR_IMPORT_REGEX_is_match(line) == \E i \in DOMAIN line : MatchAt(line, i)

starts_with(line, prefix) == Len(line) >= 1 /\ line[1] = prefix

ExportsPrefix == "exports."
EsModuleLine == "Object.defineProperty(exports, \"__esModule\", { value: true });"
UseStrict == "\"use strict\";"

\* The bodies a visitProgram method can have in this model.
IdentityBody == "visitProgram(p) { return p; }"
ClearBody == "visitProgram(p) { p.body = []; return p; }"
ThrowBody == "visitProgram(p) { throw new Error('boom'); }"
UndefinedBody == "visitProgram(p) { }"
InvalidBody == "visitProgram(p) { return {}; }"
Bodies == {IdentityBody, ClearBody, ThrowBody, UndefinedBody, InvalidBody}

\* node_modules/@swc/core/Visitor.js, a CommonJS module, abbreviated to its
\* packaging lines and the class it defines (whose visitProgram visits every
\* node and returns the program it was given).
JS_VISITOR_STR ==
    join(<< <<UseStrict>>,
            <<EsModuleLine>>,
            <<ExportsPrefix, "Visitor = void 0;">>,
            <<"class", " ", "Visitor", " ", "{", IdentityBody, "}">>,
            <<ExportsPrefix, "Visitor = Visitor;">>,
            <<ExportsPrefix, "default = Visitor;">> >>) \o <<NL>>

\* visitor_str: JS_VISITOR_STR.lines().filter(..)
KeepFrameworkLine(line) ==
    /\ ~starts_with(line, ExportsPrefix)
    /\ ~starts_with(line, EsModuleLine)

visitor_str ==
    LET ls == lines(JS_VISITOR_STR)
    IN  SelectIdx(ls, [i \in DOMAIN ls |-> KeepFrameworkLine(ls[i])], 1)

\* transform_impl_content: transform_impl.lines().filter(..)
KeepUserLine(line) == ~JS_VISITOR_IMPORT_REGEX_is_match(line)

transform_impl_content(transform_impl) ==
    LET ls == lines(transform_impl)
    IN  SelectIdx(ls, [i \in DOMAIN ls |-> KeepUserLine(ls[i])], 1)

\* format!("JSON.stringify((new {}()).visitProgram(JSON.parse(ast)))", name)
TrailerHead == "JSON.stringify((new "
TrailerTail == "()).visitProgram(JSON.parse(ast)))"
Trailer(name) == <<TrailerHead>> \o name \o <<TrailerTail>>

\* A faulty variant of Assemble: the trailer names the default class whatever the
\* configuration says.
AssembleDefaultName(ctx) ==
    join(visitor_str
         \o transform_impl_content(ctx.transform_impl)
         \o <<Trailer(<<"TransformVisitor">>)>>)

\* transform_codes.join("\n")
Assemble(ctx) ==
    join(visitor_str
         \o transform_impl_content(ctx.transform_impl)
         \o <<Trailer(ctx.transform_visitor_class_name)>>)

-----------------------------------------------------------------------------
(* The user transform files of the model.                                  *)

Sp(spaced) == IF spaced THEN <<" ">> ELSE <<>>

BareImport(q, spaced, m) == <<"import">> \o Sp(spaced) \o <<q, m, q>>

NamedImport(q, spaced, m, name) ==
    <<"import">> \o Sp(spaced) \o <<"{">> \o Sp(spaced) \o <<name>> \o Sp(spaced)
    \o <<"}">> \o Sp(spaced) \o <<"from">> \o Sp(spaced) \o <<q, m, q>>

WildcardImport(q, spaced, m) ==
    <<"import">> \o Sp(spaced) \o <<"*">> \o Sp(spaced) \o <<"as", " ", "V", " ", "from">>
    \o Sp(spaced) \o <<q, m, q>>

\* Every single-line import of the framework module in the three forms, with
\* either quote style, with and without the optional blanks.
FrameworkImportLines ==
    UNION {{BareImport(q, s, FrameworkModule),
            NamedImport(q, s, FrameworkModule, "Visitor"),
            WildcardImport(q, s, FrameworkModule)} : q \in {DQ, SQ}, s \in BOOLEAN}

ClassLine(name, body) ==
    <<"class", " ", name, " ", "extends", " ", "Visitor", " ", "{", body, "}">>

ImportComment == <<" ", "//", " ", "import", " ", "shim">>

UserLines ==
    {BareImport(DQ, TRUE, FrameworkModule),
     BareImport(SQ, FALSE, FrameworkModule),
     NamedImport(DQ, TRUE, FrameworkModule, "Visitor"),
     NamedImport(DQ, FALSE, FrameworkModule, "Visitor"),
     WildcardImport(SQ, TRUE, FrameworkModule),
     <<"import", "{", "Visitor", "}", " ", "from", " ", DQ, FrameworkModule, DQ>>,
     NamedImport(DQ, TRUE, "fs", "x"),
     <<"//", " ", "import", " ", "helpers">>,
     <<"const x = 1;">>,
     ClassLine("A", IdentityBody),
     ClassLine("A", IdentityBody) \o ImportComment}
    \cup {ClassLine("TransformVisitor", b) : b \in Bodies}

Files == {join(ls) \o <<NL>> : ls \in SeqsUpTo(UserLines, MaxLines)}

-----------------------------------------------------------------------------
(* The host tree and its JSON interchange text (serde_json on Program).    *)

ProgramTypes == {"Module", "Script"}
Items == {"x"}
Programs == [type : ProgramTypes, body : SeqsUpTo(Items, MaxBody)]

Ok(v) == [ok |-> TRUE, value |-> v]
Err(e) == [ok |-> FALSE, value |-> e]

JStr(s) == <<DQ, s, DQ>>

RECURSIVE CommaSep(_)
CommaSep(items) ==
    IF items = <<>> THEN <<>>
    ELSE IF Len(items) = 1 THEN JStr(items[1])
    ELSE JStr(items[1]) \o <<",">> \o CommaSep(Tail(items))

\* The JSON text of a tree: {"type":"Module","body":["x",..]}
ProgramJson(p) ==
    <<"{">> \o JStr("type") \o <<":">> \o JStr(p.type) \o <<",">>
    \o JStr("body") \o <<":", "[">> \o CommaSep(p.body) \o <<"]", "}">>

\* serde_json::to_string(&program)
to_string(p) == Ok(ProgramJson(p))

\* The elements of a JSON array of strings whose first element, if any,
\* starts at token i; the array ends at the first "]".
RECURSIVE ParseItems(_, _)
ParseItems(text, i) ==
    IF i > Len(text) THEN Err("EOF while parsing a list")
    ELSE IF i + 2 <= Len(text) /\ text[i] = DQ /\ text[i + 2] = DQ
    THEN IF i + 3 <= Len(text) /\ text[i + 3] = ","
         THEN LET rest == ParseItems(text, i + 4)
              IN  IF rest.ok /\ rest.value.items # <<>>
                  THEN Ok([items |-> <<text[i + 1]>> \o rest.value.items,
                           next |-> rest.value.next])
                  ELSE Err("trailing comma")
         ELSE IF i + 3 <= Len(text) /\ text[i + 3] = "]"
         THEN Ok([items |-> <<text[i + 1]>>, next |-> i + 4])
         ELSE Err("expected comma or bracket")
    ELSE IF text[i] = "]" THEN Ok([items |-> <<>>, next |-> i + 1])
    ELSE Err("expected value")

JsonHead == <<"{">> \o JStr("type") \o <<":", DQ>>
JsonMid == <<DQ, ",">> \o JStr("body") \o <<":", "[">>

\* The tree a JSON text denotes, for texts of the shape ProgramJson writes:
\* tokens 1-6 open the object up to the type, token 7 is the type, tokens
\* 8-14 lead to the first element of the body.
ParseProgramJson(text) ==
    IF ~(Len(text) >= 15 /\ SubSeq(text, 1, 6) = JsonHead
         /\ SubSeq(text, 8, 14) = JsonMid)
    THEN Err("missing field type")
    ELSE LET items == ParseItems(text, 15)
         IN  IF ~items.ok THEN items
             ELSE IF ~(items.value.next = Len(text) /\ text[Len(text)] = "}")
             THEN Err("trailing characters")
             ELSE Ok([type |-> text[7], body |-> items.value.items])

\* serde_json::from_str::<Program>(text)
from_str_Program(text) ==
    LET parsed == ParseProgramJson(text)
    IN  IF ~parsed.ok THEN parsed
        ELSE IF parsed.value.type \notin ProgramTypes
        THEN Err("unknown variant")
        ELSE parsed

-----------------------------------------------------------------------------
(* The configuration payload (serde_json on TransformPluginConfig).        *)

\* JSON values of the payload: null, a number, or a string (its tokens).
JNull == [t |-> "null", s |-> <<>>]
JNum == [t |-> "number", s |-> <<>>]
JString(s) == [t |-> "string", s |-> s]

PathKey == "transformImplPath"     \* transform_impl_path, camelCase
ClassKey == "visitorClassName"     \* visitor_class_name, camelCase

RelPath == <<"t.js">>
AbsPath == <<"/", "etc", "/", "t.js">>
GonePath == <<"gone.js">>

Member(k, v) == [key |-> k, val |-> v]

\* Option<String> payloads: None, or Some(document).  A document is text that
\* is not JSON, a scalar, an object (its members in order) or an array.
None == [some |-> FALSE]
Some(v) == [some |-> TRUE, value |-> v]

Document(kind, members) == [kind |-> kind, members |-> members]

PathMembers ==
    {<<>>} \cup {<<Member(PathKey, v)>> :
                    v \in {JNull, JNum, JString(RelPath), JString(AbsPath),
                           JString(GonePath)}}

ClassMembers ==
    {<<>>} \cup {<<Member(ClassKey, v)>> :
                    v \in {JNull, JString(<<"A">>), JString(<<"TransformVisitor">>),
                           JString(<<"B">>)}}

Payloads ==
    {None}
    \cup {Some(Document(k, <<>>)) : k \in {"garbage", "scalar"}}
    \cup {Some(Document("object", pm \o cm)) : pm \in PathMembers, cm \in ClassMembers}
    \cup {Some(Document("object", <<Member("transform_impl_path", JString(RelPath))>>)),
          Some(Document("object", <<Member(ClassKey, JString(<<"A">>)),
                                    Member(PathKey, JString(RelPath))>>)),
          Some(Document("object", <<Member(PathKey, JString(RelPath)),
                                    Member(PathKey, JString(RelPath))>>)),
          Some(Document("array", <<>>)),
          Some(Document("array", <<Member("", JString(RelPath))>>)),
          Some(Document("array", <<Member("", JString(RelPath)),
                                   Member("", JString(<<"A">>))>>)),
          Some(Document("array", <<Member("", JNum)>>)),
          Some(Document("array", <<Member("", JNull), Member("", JNull),
                                   Member("", JNull)>>))}

\* impl Default for TransformPluginConfig
TransformPluginConfig_default ==
    [transform_impl_path |-> None, visitor_class_name |-> None]

\* Deserialize for Option<String>
OptionString(v) ==
    IF v.t = "null" THEN Ok(None)
    ELSE IF v.t = "string" THEN Ok(Some(v.s))
    ELSE Err("invalid type: expected a string")

\* The derived visit_map: members in order, unknown keys ignored, a repeated
\* field refused, fields that do not occur taken from Default (serde(default)).
RECURSIVE VisitMap(_, _, _)
VisitMap(ms, cfg, seen) ==
    IF ms = <<>> THEN Ok(cfg)
    ELSE LET m == ms[1]
             field == IF m.key = PathKey THEN "transform_impl_path"
                      ELSE IF m.key = ClassKey THEN "visitor_class_name"
                      ELSE "ignored"
         IN  IF field = "ignored" THEN VisitMap(Tail(ms), cfg, seen)
             ELSE IF field \in seen THEN Err("duplicate field")
             ELSE LET v == OptionString(m.val)
                  IN  IF ~v.ok THEN v
                      ELSE VisitMap(Tail(ms), [cfg EXCEPT ![field] = v.value],
                                    seen \cup {field})

\* The derived visit_seq: fields by position.
VisitSeq(ms) ==
    IF Len(ms) > 2 THEN Err("invalid length")
    ELSE LET a == IF Len(ms) >= 1 THEN OptionString(ms[1].val) ELSE Ok(None)
             b == IF Len(ms) >= 2 THEN OptionString(ms[2].val) ELSE Ok(None)
         IN  IF ~a.ok THEN a
             ELSE IF ~b.ok THEN b
             ELSE Ok([transform_impl_path |-> a.value, visitor_class_name |-> b.value])

\* serde_json::from_str::<TransformPluginConfig>(text)
from_str_TransformPluginConfig(doc) ==
    IF doc.kind = "garbage" THEN Err("expected value")
    ELSE IF doc.kind = "scalar" THEN Err("invalid type: expected struct")
    ELSE IF doc.kind = "array" THEN VisitSeq(doc.members)
    ELSE VisitMap(doc.members, TransformPluginConfig_default, {})

-----------------------------------------------------------------------------
(* Paths and the file system.                                              *)

Root == <<"/", "cwd">>             \* PathBuf::from("/cwd")

is_absolute(path) == Len(path) >= 1 /\ path[1] = "/"

\* PathBuf::push: an absolute path replaces self; a relative one is appended
\* after a separator.
push(self, path) ==
    IF is_absolute(path) THEN path
    ELSE IF self[Len(self)] = "/" THEN self \o path
    ELSE self \o <<"/">> \o path

\* The file outside the root that the model's file systems hold.
OutsideFile == join(<<ClassLine("TransformVisitor", ClearBody)>>) \o <<NL>>

\* A file system: the user's transform under the root, one file outside it.
\* The paths at which a file can be read.
ReadablePaths == {push(Root, RelPath), AbsPath}

FileSystemsOver(files) ==
    {[p \in ReadablePaths |->
          IF p = AbsPath THEN OutsideFile ELSE f] : f \in files}

FileSystems == FileSystemsOver(Files)

\* fs::read_to_string(p)
read_to_string(files, p) ==
    IF p \in DOMAIN files THEN Ok(files[p]) ELSE Err("No such file or directory")

-----------------------------------------------------------------------------
(* The embedded script runtime (boa_engine::Context), as far as the bridge *)
(* uses it: one global string, class declarations, the trailer expression. *)

\* A faulty variant of Context_default: a runtime kept from the previous invocation,
\* with the classes its script declared still bound.
Context_reused ==
    [ast |-> [some |-> FALSE],
     classes |-> {[name |-> n, body |-> IdentityBody] : n \in retired}]

\* Context::default(): a new realm without user bindings.
Context_default == [ast |-> None, classes |-> {}]

JsString(s) == [t |-> "string", s |-> s]
JsUndefined == [t |-> "undefined", s |-> <<>>]

IsClassDecl(l) == Len(l) >= 7 /\ l[1] = "class"
ClassOf(l) == [name |-> l[3], body |-> CHOOSE b \in Bodies : b \in Range(l)]
IsImportDecl(l) == starts_with(l, "import")
UsesExports(l) == starts_with(l, ExportsPrefix) \/ starts_with(l, EsModuleLine)
IsTrailer(l) == Len(l) >= 2 /\ l[1] = TrailerHead /\ l[Len(l)] = TrailerTail

\* The classes a program text declares, one per declaring line.
Declared(ls) == {ClassOf(ls[i]) : i \in {j \in DOMAIN ls : IsClassDecl(ls[j])}}

\* (new C()).visitProgram(tree) for a class with the given body.
Visit(body, tree) ==
    IF body = IdentityBody THEN Ok([t |-> "tree", v |-> tree])
    ELSE IF body = ClearBody THEN Ok([t |-> "tree", v |-> [tree EXCEPT !.body = <<>>]])
    ELSE IF body = UndefinedBody THEN Ok([t |-> "undefined", v |-> tree])
    ELSE IF body = InvalidBody THEN Ok([t |-> "empty", v |-> tree])
    ELSE Err("Error: boom")

\* JSON.stringify of what a visitor returned.
Stringify(r) ==
    IF r.t = "tree" THEN JsString(ProgramJson(r.v))
    ELSE IF r.t = "empty" THEN JsString(<<"{", "}">>)
    ELSE JsUndefined

\* The value of the trailer JSON.stringify((new C()).visitProgram(JSON.parse(ast))).
EvalTrailer(l, classes, ast) ==
    LET name == SubSeq(l, 2, Len(l) - 1)
        found == {c \in classes : <<c.name>> = name}
    IN  IF found = {} THEN Err("ReferenceError: class is not defined")
        ELSE IF ~ast.some THEN Err("ReferenceError: ast is not defined")
        ELSE LET tree == ParseProgramJson(ast.value)
                 cls == CHOOSE c \in found : TRUE
             IN  IF ~tree.ok THEN Err("SyntaxError: JSON.parse")
                 ELSE LET r == Visit(cls.body, tree.value)
                      IN  IF ~r.ok THEN r ELSE Ok(Stringify(r.value))

\* context.eval(Source::from_bytes(code)): the completion value or the thrown
\* error, and the realm afterwards.  The text is parsed as a script: an import
\* declaration or a class declared twice is an early error and nothing runs.
Eval(code, ctx) ==
    LET ls == lines(code)
        decls == {j \in DOMAIN ls : IsClassDecl(ls[j])}
        clash == \/ \E i, j \in decls : i # j /\ ls[i][3] = ls[j][3]
                 \/ \E i \in decls : \E c \in ctx.classes : c.name = ls[i][3]
        after == [ctx EXCEPT !.classes = ctx.classes \cup Declared(ls)]
        last == ls[Len(ls)]
    IN  IF \E i \in DOMAIN ls : IsImportDecl(ls[i])
        THEN [res |-> Err("SyntaxError: import declaration in a script"), ctx |-> ctx]
        ELSE IF clash
        THEN [res |-> Err("SyntaxError: redeclaration of class"), ctx |-> ctx]
        ELSE IF \E i \in DOMAIN ls : UsesExports(ls[i])
        THEN [res |-> Err("ReferenceError: exports is not defined"), ctx |-> after]
        ELSE IF ~IsTrailer(last)
        THEN [res |-> Ok(JsUndefined), ctx |-> after]
        ELSE [res |-> EvalTrailer(last, after.classes, ctx.ast), ctx |-> after]

-----------------------------------------------------------------------------
(* build_transform_context.                                                *)

ConfigMissingMsg == "Plugin config object is not supplied, skipping transform"
ConfigMalformedMsg == "Failed to deserialize plugin config object, skipping transform"
ImplReadErrorMsg == "Failed to read transform impl from path, skipping transform"
ImplPathMissingMsg == "Transform impl path is not supplied, skipping transform"
SerializeErrorMsg == "Failed to serialize AST into JSON, cannot perform transform"
BindErrorMsg == "Failed to set AST into JS context, cannot perform transform"
EvalErrorMsg == "Failed to run transform, cannot perform transform"
DeserializeErrorMsg == "Failed to deserialize transformed AST, cannot perform transform"

\* handler.err(format!("<msg> {:#?}", cause))
Diag(msg, cause) == [msg |-> msg, cause |-> cause]

DefaultVisitorClassName == <<"TransformVisitor">>

unwrap_or(opt, default) == IF opt.some THEN opt.value ELSE default

\* What build_transform_context yields: the context (or None), what it
\* reported, and (history) the operations it performed and the path it read.
Built(ctx, ds, evs, read) == [ctx |-> ctx, diags |-> ds, events |-> evs, read |-> read]

\* Lines 158-204: the payload is present.
build_from_supplied(doc, files) ==
    LET deserialized_config == from_str_TransformPluginConfig(doc)
    IN  IF ~deserialized_config.ok
        THEN Built(None, <<Diag(ConfigMalformedMsg, deserialized_config.value)>>,
                   <<"parse_config">>, None)
        ELSE LET cfg == deserialized_config.value
             IN  IF cfg.transform_impl_path.some
                 THEN LET p == push(Root, cfg.transform_impl_path.value)
                          content_result == read_to_string(files, p)
                      IN  IF content_result.ok
                          THEN Built(Some([transform_impl |-> content_result.value,
                                           transform_visitor_class_name |->
                                               unwrap_or(cfg.visitor_class_name,
                                                         DefaultVisitorClassName)]),
                                     <<>>, <<"parse_config", "read_file">>, Some(p))
                          ELSE Built(None,
                                     <<Diag(ImplReadErrorMsg, content_result.value)>>,
                                     <<"parse_config", "read_file">>, Some(p))
                 ELSE Built(None, <<Diag(ImplPathMissingMsg, "")>>,
                            <<"parse_config">>, None)

\* A faulty variant of build_transform_context: an absent payload is read as the
\* empty configuration.
build_transform_context_absent_as_empty(cfg_str, files) ==
    build_from_supplied(IF cfg_str.some THEN cfg_str.value
                        ELSE Document("object", <<>>), files)

build_transform_context(cfg_str, files) ==
    IF ~cfg_str.some
    THEN Built(None, <<Diag(ConfigMissingMsg, "")>>, <<>>, None)
    ELSE build_from_supplied(cfg_str.value, files)

-----------------------------------------------------------------------------
(* process, step by step.                                                  *)

NoProgram == [type |-> "Module", body |-> <<>>]

Init ==
    /\ pc = "idle"
    /\ program = NoProgram
    /\ config_str = None
    /\ transform_context = None
    /\ serde_serialized_ast = None
    /\ context = None
    /\ transform_code = <<>>
    /\ transform_result = None
    /\ result = None
    /\ diags = <<>>
    /\ events = <<>>
    /\ readPath = None
    /\ retired = {}

\* The closure returns value: the locals go out of scope, the runtime (when
\* one was created) is torn down, the host receives value.
Return(value, dropped) ==
    /\ result' = Some(value)
    /\ pc' = "returned"
    /\ context' = None
    /\ retired' = IF dropped.some
                  THEN {c.name : c \in dropped.value.classes}
                  ELSE retired

\* A faulty variant of ReturnOriginal: a failure hands the host an empty Program.
ReturnEmpty(dropped) == Return(NoProgram, dropped)

\* `return program;` (lines 53, 75, 120, 140, 147)
ReturnOriginal(dropped) == Return(program, dropped)

\* The host calls process(program, metadata).
Invoke(p, c) ==
    /\ pc = "idle"
    /\ program' = p
    /\ config_str' = c
    /\ transform_context' = None
    /\ serde_serialized_ast' = None
    /\ context' = None
    /\ transform_code' = <<>>
    /\ transform_result' = None
    /\ result' = None
    /\ diags' = <<>>
    /\ events' = <<>>
    /\ readPath' = None
    /\ pc' = "build_transform_context"
    /\ UNCHANGED retired

\* Lines 38-40 and 146-148, with the whole of build_transform_context; the
\* file system is whatever the environment holds when the file is read.
BuildTransformContextIn(fss) ==
    /\ pc = "build_transform_context"
    /\ \E files \in fss :
          LET built == build_transform_context(config_str, files)
          IN  /\ transform_context' = built.ctx
              /\ diags' = diags \o built.diags
              /\ events' = events \o built.events
              /\ readPath' = built.read
              /\ IF built.ctx.some
                 THEN pc' = "serialize" /\ UNCHANGED <<result, context, retired>>
                 ELSE ReturnOriginal(context)
    /\ UNCHANGED <<program, config_str, serde_serialized_ast,
                   transform_code, transform_result>>

BuildTransformContext == BuildTransformContextIn(FileSystems)

\* Lines 43-56: serde_json::to_string(&program) succeeds, or refuses the tree.
SerializeTree ==
    /\ pc = "serialize"
    /\ \E refused \in BOOLEAN :
          LET r == IF refused THEN Err("key must be a string") ELSE to_string(program)
          IN
          /\ serde_serialized_ast' = Some(r)
          /\ events' = Append(events, "serialize")
          /\ IF r.ok
             THEN pc' = "new_context" /\ UNCHANGED <<result, context, retired, diags>>
             ELSE /\ diags' = Append(diags, Diag(SerializeErrorMsg, r.value))
                  /\ ReturnOriginal(context)
    /\ UNCHANGED <<program, config_str, transform_context,
                   transform_code, transform_result, readPath>>

\* Line 59.
CreateContext ==
    /\ pc = "new_context"
    /\ context' = Some(Context_default)
    /\ events' = Append(events, "new_context")
    /\ pc' = "bind"
    /\ UNCHANGED <<program, config_str, transform_context,
                   serde_serialized_ast, transform_code, transform_result, result,
                   diags, readPath, retired>>

\* global_object().set("ast", serde_serialized_ast, true, &mut context)
set_ast(ctx, text) == [ctx EXCEPT !.ast = Some(text)]

\* A faulty variant of BindAst: a rejected binding is reported but the transform
\* goes on.
BindAstFallThrough ==
    /\ pc = "bind"
    /\ events' = Append(events, "bind_ast")
    /\ \E accepted \in BOOLEAN :
          IF accepted
          THEN /\ context' = Some(set_ast(context.value, serde_serialized_ast.value.value))
               /\ UNCHANGED diags
          ELSE /\ diags' = Append(diags, Diag(BindErrorMsg, "TypeError"))
               /\ UNCHANGED context
    /\ pc' = "eval"
    /\ UNCHANGED <<program, config_str, transform_context, serde_serialized_ast,
                   transform_code, transform_result, readPath, result, retired>>

\* Lines 62-76: the runtime accepts the binding or rejects it.
BindAst ==
    /\ pc = "bind"
    /\ events' = Append(events, "bind_ast")
    /\ \E accepted \in BOOLEAN :
          IF accepted
          THEN /\ context' = Some(set_ast(context.value, serde_serialized_ast.value.value))
               /\ pc' = "eval"
               /\ UNCHANGED <<result, retired, diags>>
          ELSE /\ diags' = Append(diags, Diag(BindErrorMsg, "TypeError"))
               /\ ReturnOriginal(context)
    /\ UNCHANGED <<program, config_str, transform_context,
                   serde_serialized_ast, transform_code, transform_result, readPath>>

\* Lines 82-121.
AssembleAndRun ==
    /\ pc = "eval"
    /\ LET code == Assemble(transform_context.value)
           ran == Eval(code, context.value)
       IN  /\ transform_code' = code
           /\ transform_result' = Some(ran.res)
           /\ events' = Append(events, "eval")
           /\ IF ran.res.ok
              THEN /\ context' = Some(ran.ctx)
                   /\ pc' = "unwrap"
                   /\ UNCHANGED <<result, retired, diags>>
              ELSE /\ diags' = Append(diags, Diag(EvalErrorMsg, ran.res.value))
                   /\ ReturnOriginal(Some(ran.ctx))
    /\ UNCHANGED <<program, config_str, transform_context,
                   serde_serialized_ast, readPath>>

\* Lines 123-127: .unwrap().as_string().unwrap().to_std_string_escaped();
\* Option::unwrap panics when the completion value is not a string.
UnwrapResult ==
    /\ pc = "unwrap"
    /\ IF transform_result.value.value.t = "string"
       THEN pc' = "deserialize" /\ UNCHANGED <<context, retired>>
       ELSE /\ pc' = "panicked"
            /\ context' = None
            /\ retired' = {c.name : c \in context.value.classes}
    /\ UNCHANGED <<program, config_str, transform_context,
                   serde_serialized_ast, transform_code, transform_result, result,
                   diags, events, readPath>>

\* Lines 129-144.
DeserializeResult ==
    /\ pc = "deserialize"
    /\ events' = Append(events, "deserialize")
    /\ LET transformed_program == from_str_Program(transform_result.value.value.s)
       IN  IF transformed_program.ok
           THEN Return(transformed_program.value, context) /\ UNCHANGED diags
           ELSE /\ diags' = Append(diags, Diag(DeserializeErrorMsg,
                                               transformed_program.value))
                /\ ReturnOriginal(context)
    /\ UNCHANGED <<program, config_str, transform_context,
                   serde_serialized_ast, transform_code, transform_result, readPath>>

\* The host takes the returned Program; the invocation's locals are gone.
HostTakesResult ==
    /\ pc = "returned"
    /\ pc' = "idle"
    /\ program' = NoProgram
    /\ config_str' = None
    /\ transform_context' = None
    /\ serde_serialized_ast' = None
    /\ transform_code' = <<>>
    /\ transform_result' = None
    /\ result' = None
    /\ diags' = <<>>
    /\ events' = <<>>
    /\ readPath' = None
    /\ UNCHANGED <<context, retired>>

\* One invocation of process, from the call to the return or the panic.
Next ==
    \/ \E p \in Programs, c \in Payloads : Invoke(p, c)
    \/ BuildTransformContext
    \/ SerializeTree
    \/ CreateContext
    \/ BindAst
    \/ AssembleAndRun
    \/ UnwrapResult
    \/ DeserializeResult

Spec == Init /\ [][Next]_vars

\* A process lifetime: the host calls process again and again, over a small
\* set of payloads and transform files.
LifetimeFiles ==
    {join(<<l>>) \o <<NL>> : l \in {ClassLine("A", IdentityBody),
                                    ClassLine("TransformVisitor", ClearBody),
                                    <<"const x = 1;">>}}

LifetimePayloads ==
    {None} \cup {Some(Document("object", <<Member(PathKey, JString(RelPath))>> \o cm)) :
                    cm \in ClassMembers}

InvokeLifetime == \E p \in Programs, c \in LifetimePayloads : Invoke(p, c)

BuildTransformContextLifetime == BuildTransformContextIn(FileSystemsOver(LifetimeFiles))

NextLifetime ==
    \/ InvokeLifetime
    \/ BuildTransformContextLifetime
    \/ SerializeTree
    \/ CreateContext
    \/ BindAst
    \/ AssembleAndRun
    \/ UnwrapResult
    \/ DeserializeResult
    \/ HostTakesResult

SpecLifetime == Init /\ [][NextLifetime]_vars

-----------------------------------------------------------------------------
(* Properties.                                                             *)

Evaluated == transform_result.some
Last(s) == s[Len(s)]
ParsedConfig == from_str_TransformPluginConfig(config_str.value)

\* The stage at which the invocation failed, read off the results it holds.
FailedStage ==
    IF ~transform_context.some THEN "ResolveConfig"
    ELSE IF ~serde_serialized_ast.value.ok THEN "SerializeTree"
    ELSE IF ~transform_result.some THEN "PrepareRuntime"
    ELSE IF ~transform_result.value.ok THEN "AssembleAndRun"
    ELSE IF ~from_str_Program(transform_result.value.value.s).ok THEN "DeserializeResult"
    ELSE "none"

StageMessages(stage) ==
    IF stage = "ResolveConfig"
    THEN {ConfigMissingMsg, ConfigMalformedMsg, ImplPathMissingMsg, ImplReadErrorMsg}
    ELSE IF stage = "SerializeTree" THEN {SerializeErrorMsg}
    ELSE IF stage = "PrepareRuntime" THEN {BindErrorMsg}
    ELSE IF stage = "AssembleAndRun" THEN {EvalErrorMsg}
    ELSE IF stage = "DeserializeResult" THEN {DeserializeErrorMsg}
    ELSE {}

StageOrder ==
    <<"parse_config", "read_file", "serialize", "new_context", "bind_ast", "eval",
      "deserialize">>

\* C1: whatever the payload, the transform file and the outcome of the
\* evaluation (a completion value that is not a string included), no panic
\* leaves process: the invocation never ends in a panic.
C1_NoPanicEscapes == pc # "panicked"

\* C2: when an invocation fails at one of the five stages, the Program
\* returned is the input Program and the last diagnostic reported is that
\* stage's; a Program other than the input is returned only when every stage
\* succeeded and nothing was reported.
C2_FailSoft ==
    pc = "returned" =>
        /\ FailedStage # "none" =>
              /\ result = Some(program)
              /\ diags # <<>>
              /\ Last(diags).msg \in StageMessages(FailedStage)
        /\ result # Some(program) =>
              /\ FailedStage = "none"
              /\ diags = <<>>
              /\ events = StageOrder

\* C2 witness: a visitor that throws; the tree handed back is the (non-empty)
\* input and the diagnostic carries the thrown message.
C2_Witness ==
    /\ pc = "returned"
    /\ FailedStage = "AssembleAndRun"
    /\ program.body # <<>>
    /\ Last(diags) = Diag(EvalErrorMsg, "Error: boom")

\* The outcome of configuration resolution: it failed with exactly the one
\* diagnostic msg, produced no context, and process returned the input.
ConfigFailure(msg) ==
    /\ ~transform_context.some
    /\ Len(diags) = 1
    /\ diags[1].msg = msg
    /\ pc = "returned"
    /\ result = Some(program)

\* C3: configuration resolution fails by the first failing check, in the
\* order absent payload, unparsable payload, unset transformImplPath, failed
\* read, with exactly one diagnostic of that kind, no TransformContext and
\* the input tree returned; otherwise it yields a context.
C3_ConfigClassification ==
    pc \notin {"idle", "build_transform_context"} =>
        IF ~config_str.some THEN ConfigFailure(ConfigMissingMsg)
        ELSE IF ~ParsedConfig.ok THEN ConfigFailure(ConfigMalformedMsg)
        ELSE IF ~ParsedConfig.value.transform_impl_path.some
        THEN ConfigFailure(ImplPathMissingMsg)
        ELSE IF readPath.some /\ readPath.value \notin ReadablePaths
        THEN ConfigFailure(ImplReadErrorMsg)
        ELSE transform_context.some

\* C3 witness: the empty object, which parses, is reported as a missing
\* path and not as a missing payload.
C3_Witness ==
    /\ pc = "returned"
    /\ config_str = Some(Document("object", <<>>))
    /\ diags = <<Diag(ImplPathMissingMsg, "")>>

UserLinesOf(ctx) == lines(ctx.transform_impl)

\* C4: every line of the transform file that is a single-line import of the
\* framework module (bare, named or wildcard, either quote style) is absent
\* from the program text that is evaluated.
C4_FrameworkImportsStripped ==
    Evaluated =>
        \A l \in Range(UserLinesOf(transform_context.value)) :
            l \in FrameworkImportLines => l \notin Range(lines(transform_code))

RECURSIVE IsSubseq(_, _)
IsSubseq(s, t) ==
    IF s = <<>> THEN TRUE
    ELSE IF t = <<>> THEN FALSE
    ELSE IF s[1] = t[1] THEN IsSubseq(Tail(s), Tail(t))
    ELSE IsSubseq(s, Tail(t))

\* C5: every line of the transform file that does not reference the
\* framework module is kept in the assembled program, in the original order.
C5_OnlyFrameworkImportsRemoved ==
    Evaluated =>
        LET user == UserLinesOf(transform_context.value)
            other == SelectIdx(user, [i \in DOMAIN user |->
                                         FrameworkModule \notin Range(user[i])], 1)
            code == lines(transform_code)
        IN  IsSubseq(other, SubSeq(code, Len(visitor_str) + 1, Len(code) - 1))

\* C6: the file read is the configured path resolved under the root /cwd,
\* also when the configured path is absolute.
C6_ReadUnderRoot ==
    readPath.some =>
        LET configured == ParsedConfig.value.transform_impl_path.value
            relative == IF is_absolute(configured) THEN Tail(configured)
                        ELSE configured
        IN  /\ IsPrefix(Root \o <<"/">>, readPath.value)
            /\ readPath.value = Root \o <<"/">> \o relative

\* The transform file is a script that declares the class `name` once.
DeclaresOnce(ctx, name) ==
    LET ls == UserLinesOf(ctx)
        decls == {i \in DOMAIN ls : IsClassDecl(ls[i])}
    IN  /\ Cardinality({i \in decls : <<ls[i][3]>> = name}) = 1
        /\ \A i, j \in decls : ls[i][3] = ls[j][3] => i = j

\* What evaluating the trailer yields when the class with this body runs.
OutcomeOf(body) ==
    LET r == Visit(body, program)
    IN  IF r.ok THEN Ok(Stringify(r.value)) ELSE r

SameResult(a, b) == a.ok = b.ok /\ a.value = b.value

\* C7: the trailer instantiates the configured visitorClassName, or
\* TransformVisitor when it is unset; when the transform file defines that
\* class the evaluation yields that class's result, and when the assembled
\* program defines no class of that name the evaluation fails with a runtime
\* evaluation error and the input tree is returned.
C7_NamedVisitorRuns ==
    Evaluated =>
        LET ctx == transform_context.value
            name == ctx.transform_visitor_class_name
            configured == ParsedConfig.value.visitor_class_name
            code == lines(transform_code)
        IN  /\ name = IF configured.some THEN configured.value
                      ELSE <<"TransformVisitor">>
            /\ Last(code) = Trailer(name)
            /\ DeclaresOnce(ctx, name) =>
                  \E c \in Declared(UserLinesOf(ctx)) :
                      <<c.name>> = name
                      /\ SameResult(transform_result.value, OutcomeOf(c.body))
            /\ (\A c \in Declared(code) : <<c.name>> # name) =>
                  /\ ~transform_result.value.ok
                  /\ pc = "returned"
                  /\ result = Some(program)
                  /\ Last(diags).msg = EvalErrorMsg

\* C8: every invocation that prepares a runtime evaluates in a new one: no
\* class of an earlier script is bound in it, its only global is ast, bound
\* to the serialization of this invocation's input tree, what it holds after
\* the evaluation is what this invocation's program declared, and that
\* program starts with the same framework text.
C8_FreshRuntime ==
    /\ pc = "bind" => context.value.classes = {} /\ ~context.value.ast.some
    /\ pc = "eval" =>
          /\ context.value.classes = {}
          /\ context.value.ast = Some(ProgramJson(program))
    /\ pc \in {"unwrap", "deserialize"} =>
          /\ context.value.classes = Declared(lines(transform_code))
          /\ IsPrefix(visitor_str, lines(transform_code))

\* C8 witness: a runtime is about to evaluate after an earlier invocation's
\* runtime, in which a script had declared classes, was torn down.
C8_Witness == pc = "eval" /\ retired # {}

\* The class the configuration names is declared once by the transform file
\* and its visitProgram returns the tree it was given.
UserVisitorIsIdentity ==
    LET ctx == transform_context.value
        name == ctx.transform_visitor_class_name
    IN  /\ DeclaresOnce(ctx, name)
        /\ \E c \in Declared(UserLinesOf(ctx)) :
               <<c.name>> = name /\ c.body = IdentityBody

AllStagesSucceeded == pc = "returned" /\ diags = <<>> /\ transform_context.some

OperationsAt(msg) ==
    IF msg = ConfigMissingMsg THEN 0
    ELSE IF msg \in {ConfigMalformedMsg, ImplPathMissingMsg} THEN 1
    ELSE IF msg = ImplReadErrorMsg THEN 2
    ELSE IF msg = SerializeErrorMsg THEN 3
    ELSE IF msg = BindErrorMsg THEN 5
    ELSE IF msg = EvalErrorMsg THEN 6
    ELSE 7

\* C10: the operations of one invocation are a prefix of parse, read,
\* serialize, create runtime, bind, evaluate, deserialize (each at most once,
\* in that order); once a stage has failed the invocation is over and the
\* operations performed end at the failing one; a return without a failure
\* has performed them all.
C10_LinearStages ==
    /\ IsPrefix(events, StageOrder)
    /\ Len(diags) <= 1
    /\ diags # <<>> =>
          /\ pc = "returned"
          /\ Len(events) = OperationsAt(diags[1].msg)
    /\ pc = "returned" /\ diags = <<>> => events = StageOrder

\* C10 witness: the runtime rejected the binding; nothing was evaluated.
C10_Witness ==
    /\ pc = "returned"
    /\ diags = <<Diag(BindErrorMsg, "TypeError")>>
    /\ events = SubSeq(StageOrder, 1, 5)

=============================================================================
